---- MODULE Spec2Model ----
(***************************************************************************)
(* A model of the lexical scanner of src/lexer.c.                          *)
(*                                                                         *)
(* A character is a one-character string; EOF and NUL are two values that  *)
(* are no ordinary character.  The input file is a finite sequence of      *)
(* characters; the stream fp is a read position in it plus the stack of    *)
(* characters given back with ungetc.  Every function of the source is an  *)
(* operator on a scanner record                                            *)
(*     [pos, pb, line, col, n]                                             *)
(* (stream position, pushed-back characters, g_line, g_col, and the net    *)
(* number of characters taken from the stream in the current next_token    *)
(* call), and every function call of next_token / main is one action.      *)
(***************************************************************************)
EXTENDS Integers, Sequences, FiniteSets, TLC

VARIABLES input, fp, g_line, g_col, pc, tok, out, consumed, callFrom, tokStart

vars == <<input, fp, g_line, g_col, pc, tok, out, consumed, callFrom, tokStart>>

(* ------------------------------------------------------------------ *)
(* Program constants                                                   *)
(* ------------------------------------------------------------------ *)
MAX_LEXEME_LEN == 256

MAX_ID_LEN == 64

EOF == "EOF"

NUL == "NUL"

TOK_EOF == "TOK_EOF"
TOK_KEYWORD == "TOK_KEYWORD"
TOK_IDENTIFIER == "TOK_IDENTIFIER"
TOK_INT == "TOK_INT"
TOK_FLOAT == "TOK_FLOAT"
TOK_STRING == "TOK_STRING"
TOK_CHAR == "TOK_CHAR"
TOK_OPERATOR == "TOK_OPERATOR"
TOK_SEPARATOR == "TOK_SEPARATOR"
TOK_UNKNOWN == "TOK_UNKNOWN"
TOK_ERROR == "TOK_ERROR"

KEYWORDS ==
  << <<"i","f">>, <<"e","l","s","e">>, <<"w","h","i","l","e">>, <<"f","o","r">>,
     <<"r","e","t","u","r","n">>, <<"i","n","t">>, <<"f","l","o","a","t">>,
     <<"c","h","a","r">>, <<"v","o","i","d">>, <<"b","r","e","a","k">>,
     <<"c","o","n","t","i","n","u","e">>, <<"s","t","r","u","c","t">>,
     <<"c","o","n","s","t">> >>

KEYWORD_COUNT == Len(KEYWORDS)

(* ------------------------------------------------------------------ *)
(* <ctype.h> in the C locale, and C strings                            *)
(* ------------------------------------------------------------------ *)
isdigit(c) == c \in {"0","1","2","3","4","5","6","7","8","9"}

isalpha(c) ==
  c \in {"a","b","c","d","e","f","g","h","i","j","k","l","m","n","o","p","q","r",
         "s","t","u","v","w","x","y","z",
         "A","B","C","D","E","F","G","H","I","J","K","L","M","N","O","P","Q","R",
         "S","T","U","V","W","X","Y","Z"}

isalnum(c) == isalpha(c) \/ isdigit(c)

isspace(c) == c \in {" ", "\t", "\n", "\f", "\r"}

Take(s, k) == IF Len(s) <= k THEN s ELSE SubSeq(s, 1, k)

(* The C string held in a char array: what precedes the first NUL.     *)
CStrLen(s) ==
  IF \E i \in 1..Len(s) : s[i] = NUL
  THEN (CHOOSE i \in 1..Len(s) : s[i] = NUL /\ \A j \in 1..(i - 1) : s[j] # NUL) - 1
  ELSE Len(s)

CStr(s) == Take(s, CStrLen(s))

strlen(s) == Len(CStr(s))

strcmp_eq(a, b) == CStr(a) = CStr(b)

(* Mutant: strncmp over the keyword's length, so a prefix matches.     *)
is_keyword_prefix(s) ==
  \E i \in 1..KEYWORD_COUNT :
    Len(CStr(s)) >= Len(KEYWORDS[i]) /\ Take(CStr(s), Len(KEYWORDS[i])) = KEYWORDS[i]

is_keyword(s) == \E i \in 1..KEYWORD_COUNT : strcmp_eq(s, KEYWORDS[i])

(* ------------------------------------------------------------------ *)
(* A C loop: Body is applied while Cond holds.  Every loop of the       *)
(* scanner reads a character per iteration, so it ends within           *)
(* Len(input) + 2 iterations; the iterations are split in halves to     *)
(* keep the evaluation shallow.                                         *)
(* ------------------------------------------------------------------ *)
RECURSIVE Iterate(_, _, _, _)
Iterate(Cond(_), Body(_), x, k) ==
  IF k = 0 \/ ~Cond(x) THEN x
  ELSE IF k = 1 THEN Body(x)
  ELSE Iterate(Cond, Body, Iterate(Cond, Body, x, k \div 2), k - (k \div 2))

While(Cond(_), Body(_), x) == Iterate(Cond, Body, x, Len(input) + 2)

(* ------------------------------------------------------------------ *)
(* The stream and the position counters                                *)
(* ------------------------------------------------------------------ *)
fgetc(S) ==
  IF S.pb # <<>> THEN Head(S.pb)
  ELSE IF S.pos < Len(input) THEN input[S.pos + 1]
  ELSE EOF

(* read_char: the character read and the scanner after the read.       *)
read_char(S) ==
  LET c == fgetc(S) IN
  [c |-> c,
   s |-> [pos  |-> IF S.pb = <<>> /\ c # EOF THEN S.pos + 1 ELSE S.pos,
          pb   |-> IF S.pb # <<>> THEN Tail(S.pb) ELSE S.pb,
          line |-> IF c = "\n" THEN S.line + 1 ELSE S.line,
          col  |-> IF c = "\n" THEN 0 ELSE IF c # EOF THEN S.col + 1 ELSE S.col,
          n    |-> IF c # EOF THEN S.n + 1 ELSE S.n]]

unread_char(c, S) ==
  IF c = EOF THEN S
  ELSE [S EXCEPT !.pb = <<c>> \o @,
                 !.col = IF c # "\n" THEN @ - 1 ELSE @,
                 !.n = @ - 1]

make_token(type, lex, line, col) ==
  [type |-> type, lexeme |-> Take(CStr(lex), MAX_LEXEME_LEN - 1),
   line |-> line, col |-> col]

(* ------------------------------------------------------------------ *)
(* skip_whitespace_and_comments                                        *)
(* ------------------------------------------------------------------ *)
IsSpace(r) == isspace(r.c)

Advance(r) == read_char(r.s)

(* Mutant: an if in place of the while, one space is skipped.          *)
SkipOneSpace(r) == IF IsSpace(r) THEN Advance(r) ELSE r

SkipSpaces(r) == While(IsSpace, Advance, r)

InLineComment(r) == r.c # "\n" /\ r.c # EOF

(* Mutant: the newline that ends the comment is given back.            *)
LineCommentKeepsNewline(r) ==
  LET e == While(InLineComment, Advance, r) IN [c |-> e.c, s |-> unread_char(e.c, e.s)]

LineComment(r) == While(InLineComment, Advance, r)

InBlockComment(b) == b.r.c # EOF /\ ~(b.prev = "*" /\ b.r.c = "/")

BlockStep(b) == [prev |-> b.r.c, r |-> read_char(b.r.s)]

(* Mutant: prev starts as the opener's '*', so the slash-star-slash    *)
(* of three characters closes the comment.                             *)
BlockCommentFromOpener(r) ==
  While(InBlockComment, BlockStep, [prev |-> "*", r |-> r]).r

BlockComment(r) == While(InBlockComment, BlockStep, [prev |-> NUL, r |-> r]).r

(* Mutant: the two characters are given back in the order they were read. *)
NotACommentInReadOrder(c, next, S) == unread_char(next, unread_char(c, S))

NotAComment(c, next, S) == unread_char(c, unread_char(next, S))

(* One turn of the outer while (1): continue or return.                *)
SkipTurn(k) ==
  LET r == SkipSpaces(read_char(k.s)) IN
  IF r.c = "/" THEN
    LET nx == read_char(r.s) IN
    IF nx.c = "/" THEN [s |-> LineComment(read_char(nx.s)).s, returned |-> FALSE]
    ELSE IF nx.c = "*" THEN [s |-> BlockComment(read_char(nx.s)).s, returned |-> FALSE]
    ELSE [s |-> NotAComment(r.c, nx.c, nx.s), returned |-> TRUE]
  ELSE [s |-> unread_char(r.c, r.s), returned |-> TRUE]

Skipping(k) == ~k.returned

skip_whitespace_and_comments(S) ==
  While(Skipping, SkipTurn, [s |-> S, returned |-> FALSE]).s

(* ------------------------------------------------------------------ *)
(* The sub-scanners: each gives the token and the scanner afterwards   *)
(* ------------------------------------------------------------------ *)
(* Mutant: the guard is off by one, a write goes to index limit.       *)
PutUpToLimit(buf, c, limit) == IF Len(buf) <= limit THEN Append(buf, c) ELSE buf

(* if (len < limit) buf[len++] = c; the buffer is its first len bytes. *)
Put(buf, c, limit) == IF Len(buf) < limit THEN Append(buf, c) ELSE buf

InIdent(e) == isalnum(e.r.c) \/ e.r.c = "_"

Capture(e) == [r |-> read_char(e.r.s), buf |-> Put(e.buf, e.r.c, MAX_LEXEME_LEN - 1)]

IdentRun(r, buf) == While(InIdent, Capture, [r |-> r, buf |-> buf])

(* Mutant: the cut keeps one character less.                           *)
TruncatedShort(buf) == Take(CStr(buf), MAX_ID_LEN - 1)

Truncated(buf) == Take(CStr(buf), MAX_ID_LEN)

Classify(buf, start_line, start_col) ==
  IF ~is_keyword(buf) /\ strlen(buf) > MAX_ID_LEN
  THEN make_token(TOK_IDENTIFIER, Truncated(buf), start_line, start_col)
  ELSE IF is_keyword(buf)
  THEN make_token(TOK_KEYWORD, buf, start_line, start_col)
  ELSE make_token(TOK_IDENTIFIER, buf, start_line, start_col)

read_identifier_or_keyword(S) ==
  LET start_line == S.line
      start_col == S.col + 1
      e == IdentRun(read_char(S), <<>>)
  IN [tok |-> Classify(e.buf, start_line, start_col),
      s |-> unread_char(e.r.c, e.r.s)]

InDigits(e) == isdigit(e.r.c)

DigitRun(r, buf) == While(InDigits, Capture, [r |-> r, buf |-> buf])

(* Mutant: the point is taken, the digits after it are not.            *)
FractionPointOnly(e) ==
  IF e.r.c = "."
  THEN [r |-> read_char(e.r.s), buf |-> Put(e.buf, ".", MAX_LEXEME_LEN - 1)]
  ELSE e

Fraction(e) ==
  IF e.r.c = "."
  THEN DigitRun(read_char(e.r.s), Put(e.buf, ".", MAX_LEXEME_LEN - 1))
  ELSE e

read_number(S) ==
  LET start_line == S.line
      start_col == S.col + 1
      e == DigitRun(read_char(S), <<>>)
      is_float == e.r.c = "."
      f == Fraction(e)
  IN [tok |-> make_token(IF is_float THEN TOK_FLOAT ELSE TOK_INT, f.buf,
                         start_line, start_col),
      s |-> unread_char(f.r.c, f.r.s)]

UnterminatedString == <<"Unterminated string literal">>

UnterminatedChar == <<"Unterminated char literal">>

InvalidChar == <<"Invalid/unterminated char literal">>

(* A diagnostic is one unit of text, shorter than MAX_LEXEME_LEN.      *)
error_token(msg, line, col) == make_token(TOK_ERROR, msg, line, col)

InString(e) == ~e.failed /\ e.r.c # EOF /\ e.r.c # "\""

(* One turn of the loop of read_string; failed is an early return.     *)
(* Mutant: a newline inside the literal is taken like any character.   *)
StringTurnAcrossLines(e) ==
  IF e.r.c = "\\"
  THEN LET b1 == Put(e.buf, e.r.c, MAX_LEXEME_LEN - 2)
           x == read_char(e.r.s)
       IN IF x.c = EOF
          THEN [r |-> x, buf |-> b1, failed |-> TRUE]
          ELSE [r |-> read_char(x.s), buf |-> Put(b1, x.c, MAX_LEXEME_LEN - 2),
                failed |-> FALSE]
  ELSE [r |-> read_char(e.r.s), buf |-> Put(e.buf, e.r.c, MAX_LEXEME_LEN - 1),
        failed |-> FALSE]

StringTurn(e) ==
  IF e.r.c = "\n" THEN [e EXCEPT !.failed = TRUE]
  ELSE IF e.r.c = "\\"
  THEN LET b1 == Put(e.buf, e.r.c, MAX_LEXEME_LEN - 2)
           x == read_char(e.r.s)
       IN IF x.c = EOF
          THEN [r |-> x, buf |-> b1, failed |-> TRUE]
          ELSE [r |-> read_char(x.s), buf |-> Put(b1, x.c, MAX_LEXEME_LEN - 2),
                failed |-> FALSE]
  ELSE [r |-> read_char(e.r.s), buf |-> Put(e.buf, e.r.c, MAX_LEXEME_LEN - 1),
        failed |-> FALSE]

StringRun(r) == While(InString, StringTurn, [r |-> r, buf |-> <<>>, failed |-> FALSE])

StringBody(r, start_line, start_col) ==
  LET e == StringRun(r) IN
  IF e.failed \/ e.r.c = EOF
  THEN [tok |-> error_token(UnterminatedString, start_line, start_col), s |-> e.r.s]
  ELSE [tok |-> make_token(TOK_STRING, e.buf, start_line, start_col), s |-> e.r.s]

read_string(S) ==
  LET start_line == S.line
      start_col == S.col + 1
      quote == read_char(S)
  IN StringBody(read_char(quote.s), start_line, start_col)

Closing(r, buf, start_line, start_col) ==
  LET closing == read_char(r.s) IN
  IF closing.c # "'"
  THEN [tok |-> error_token(InvalidChar, start_line, start_col), s |-> closing.s]
  ELSE [tok |-> make_token(TOK_CHAR, buf, start_line, start_col), s |-> closing.s]

read_char_literal(S) ==
  LET start_line == S.line
      start_col == S.col + 1
      quote == read_char(S)
      r == read_char(quote.s)
  IN IF r.c = EOF \/ r.c = "\n"
     THEN [tok |-> error_token(UnterminatedChar, start_line, start_col), s |-> r.s]
     ELSE IF r.c = "\\"
     THEN LET e == read_char(r.s) IN
          IF e.c = EOF \/ e.c = "\n"
          THEN [tok |-> error_token(UnterminatedChar, start_line, start_col),
                s |-> e.s]
          ELSE Closing(e, Put(Put(<<>>, r.c, MAX_LEXEME_LEN - 2), e.c,
                              MAX_LEXEME_LEN - 2), start_line, start_col)
     ELSE Closing(r, Put(<<>>, r.c, MAX_LEXEME_LEN - 1), start_line, start_col)

is_separator_char(c) == c \in {"(", ")", "{", "}", "[", "]", ";", ","}

two_ops ==
  << <<"=","=">>, <<"!","=">>, <<"<","=">>, <<">","=">>, <<"&","&">>,
     <<"|","|">>, <<"+","+">>, <<"-","-">>, <<"+","=">>, <<"-","=">>,
     <<"*","=">>, <<"/","=">>, <<"%","=">>, <<"-",">">> >>

two_ops_count == Len(two_ops)

(* (char)c of an int c: EOF becomes the byte 0xFF.                     *)
to_char(c) == IF c = EOF THEN "0xFF" ELSE c

(* strchr("+-*/%<>=!&|^~?:.", c) != NULL: the terminating NUL matches.  *)
single_op(c) ==
  c \in {"+","-","*","/","%","<",">","=","!","&","|","^","~","?",":",".", NUL}

IsTwoOp(lex) == \E i \in 1..two_ops_count : strcmp_eq(lex, two_ops[i])

(* Mutant: the second character is not given back.                     *)
DropSecond(c2, S) == S

PushBackSecond(c2, S) == unread_char(c2, S)

read_operator_or_separator(S) ==
  LET start_line == S.line
      start_col == S.col + 1
      r1 == read_char(S)
      c1 == r1.c
  IN IF is_separator_char(c1)
     THEN [tok |-> make_token(TOK_SEPARATOR, <<to_char(c1)>>, start_line, start_col),
           s |-> r1.s]
     ELSE LET r2 == read_char(r1.s)
              c2 == r2.c
              lex == <<to_char(c1), to_char(c2)>>
          IN IF IsTwoOp(lex)
             THEN [tok |-> make_token(TOK_OPERATOR, lex, start_line, start_col),
                   s |-> r2.s]
             ELSE [tok |-> make_token(IF single_op(c1) THEN TOK_OPERATOR
                                      ELSE TOK_UNKNOWN,
                                      <<to_char(c1)>>, start_line, start_col),
                   s |-> PushBackSecond(c2, r2.s)]

(* ------------------------------------------------------------------ *)
(* The inputs                                                          *)
(* ------------------------------------------------------------------ *)
MaxLen == 3

MaxOver == 1

Alphabet == {"<", "_", NUL, "a", "1", ".", "\"", "'", "\\", "\n", " ", "/", "*", "=", ";"}

ShortInputs == UNION {[1..k -> Alphabet] : k \in 0..MaxLen}

Run(c, k) == [i \in 1..k |-> c]

KeywordSet == {KEYWORDS[i] : i \in 1..KEYWORD_COUNT}

WordInputs ==
  KeywordSet
  \cup {w \o <<c>> : w \in KeywordSet, c \in {"1", "_", "s", " ", "(", "\n"}}
  \cup {<<c>> \o w : w \in KeywordSet, c \in {"_", "x", "1", " "}}
  \cup {SubSeq(w, 1, Len(w) - 1) : w \in KeywordSet}
  \cup {w \o <<" ">> \o v : w, v \in {KEYWORDS[1], KEYWORDS[3], <<"x","1">>}}

LongLens ==
  ((MAX_ID_LEN - 1)..(MAX_ID_LEN + MaxOver))
  \cup ((MAX_LEXEME_LEN - 2)..(MAX_LEXEME_LEN + MaxOver))

LongInputs ==
  {Run(c, k) \o t : c \in {"a", "7"}, k \in LongLens,
                    t \in {<<>>, <<".">>, <<".", "5">>, <<" ", "b">>}}

SampleInputs ==
  { <<"w","h","i","l","e","1">>,
    <<"1","2",".">>, <<"1","2">>, <<"1","2",".","5","x">>, <<"1",".",".","2">>,
    <<"<","=","x">>, <<"<","x">>, <<"<","\n","x">>, <<"-",">","-","-",">">>,
    <<"=","=","=">>, <<"@","x">>, <<"@","\n","@">>, <<NUL,"x">>, <<"(","=","=",")">>,
    <<"\"","a","b","c">>, <<"\"","a","b","c","\"">>, <<"\"","a","\\","\"","b","\"","x">>,
    <<"x","\n","\"","a","b","c">>, <<"\"","a","\\","\n","b","\"">>,
    <<"\"","a","\\">>, <<"\"","a","\n","b","\"">>,
    <<"'","\\","n","'">>, <<"'","a","b","'">>, <<"'","\\">>,
    <<"a","/","/","c","\n","b">>, <<"a","/","*","c","*","/","b">>,
    <<"/","*","/","a">>, <<"/","*","*","/","a">>, <<"a","\n","\n","b">>,
    <<"a"," ","/","\n","b">>, <<"x","=","1",";","\n","y","=","2",";">>,
    <<"a","\n","b","\n","c">> }

(* String literals about as long as the lexeme buffer, with and       *)
(* without an escape near its end.                                     *)
StringInputs ==
  {<<"\"">> \o Run("a", k) \o t \o <<"\"">> :
     k \in (MAX_LEXEME_LEN - 4)..(MAX_LEXEME_LEN + MaxOver),
     t \in {<<>>, <<"\\", "n", "b">>}}

LayoutInputs ==
  { <<"/","/","a","\n","/","/","b","\n","c">>, <<" ","/","/","a","\n"," ","b">>,
    <<"a"," ","/","*","*","/"," ","/","b">>, <<"a","/","/","b","\n","\n","/","=">>,
    <<"x","/","/","a","\n","y">>, <<"x"," ","/","*","/","y">>,
    <<"/","/","a">>, <<"a","/","/">>, <<"/","*"," ","a">>, <<"a","/","*","b">>,
    <<"/","*","/","*","/","a">>, <<"/","*","*","*","/","/","a">>,
    <<"/","*","\n","*","/","a","\n","b">>, <<"/","*","a","*","/","/","/","b","\n","c">>,
    <<"'","'","'">>, <<"'","\\","'","'">>, <<"'","\\","\n","'">>, <<"'",NUL,"'">>,
    <<"'","a","'","x">>, <<"x","\n","'","a">>,
    <<"\"","a",NUL,"b","\"">>, <<"\"","\\","\\","\"","a">>, <<"\"","\"","\"">> }

Inputs ==
  ShortInputs \cup WordInputs \cup LongInputs \cup SampleInputs
  \cup StringInputs \cup LayoutInputs

(* ------------------------------------------------------------------ *)
(* The state machine: main's loop around next_token                    *)
(* ------------------------------------------------------------------ *)
NoToken == [type |-> "none", lexeme |-> <<>>, line |-> 0, col |-> 0]

Cur == [pos |-> fp.pos, pb |-> fp.pb, line |-> g_line, col |-> g_col, n |-> consumed]

Offset(S) == S.pos - Len(S.pb)

Commit(S) ==
  /\ fp' = [pos |-> S.pos, pb |-> S.pb]
  /\ g_line' = S.line
  /\ g_col' = S.col
  /\ consumed' = S.n

Init ==
  /\ input \in Inputs
  /\ fp = [pos |-> 0, pb |-> <<>>]
  /\ g_line = 1
  /\ g_col = 0
  /\ pc = "skip"
  /\ tok = NoToken
  /\ out = <<>>
  /\ consumed = 0
  /\ callFrom = 0
  /\ tokStart = 0

SkipWhitespaceAndComments ==
  /\ pc = "skip"
  /\ Commit(skip_whitespace_and_comments(Cur))
  /\ pc' = "peek"
  /\ UNCHANGED <<input, tok, out, callFrom, tokStart>>

(* next_token, lines 335-337: the stream is at its end.                *)
NextTokenEOF ==
  /\ pc = "peek"
  /\ LET r == read_char(Cur) IN
       /\ r.c = EOF
       /\ Commit(r.s)
       /\ tok' = make_token(TOK_EOF, <<"E","O","F">>, r.s.line, r.s.col)
       /\ tokStart' = Offset(r.s)
  /\ pc' = "print"
  /\ UNCHANGED <<input, out, callFrom>>

Dispatch(c) ==
  IF isalpha(c) \/ c = "_" THEN "read_identifier_or_keyword"
  ELSE IF isdigit(c) THEN "read_number"
  ELSE IF c = "\"" THEN "read_string"
  ELSE IF c = "'" THEN "read_char_literal"
  ELSE "read_operator_or_separator"

(* next_token, lines 335-359: peek twice and choose the sub-scanner.   *)
NextTokenDispatch ==
  /\ pc = "peek"
  /\ LET r == read_char(Cur) IN
       /\ r.c # EOF
       /\ LET r2 == read_char(unread_char(r.c, r.s))
              S2 == unread_char(r2.c, r2.s)
          IN /\ Commit(S2)
             /\ pc' = Dispatch(r2.c)
             /\ tokStart' = Offset(S2)
  /\ UNCHANGED <<input, tok, out, callFrom>>

Return(res) ==
  /\ Commit(res.s)
  /\ tok' = res.tok
  /\ pc' = "print"
  /\ UNCHANGED <<input, out, callFrom, tokStart>>

ReadIdentifierOrKeyword ==
  /\ pc = "read_identifier_or_keyword"
  /\ Return(read_identifier_or_keyword(Cur))

ReadNumber ==
  /\ pc = "read_number"
  /\ Return(read_number(Cur))

ReadString ==
  /\ pc = "read_string"
  /\ Return(read_string(Cur))

ReadCharLiteral ==
  /\ pc = "read_char_literal"
  /\ Return(read_char_literal(Cur))

ReadOperatorOrSeparator ==
  /\ pc = "read_operator_or_separator"
  /\ Return(read_operator_or_separator(Cur))

(* One printed line of main, with the part of the input its call took. *)
Printed ==
  [tok |-> tok, from |-> callFrom, start |-> tokStart,
   upto |-> Offset(Cur), n |-> consumed]

(* Mutant: the loop forgets its break on the EndOfInput token.         *)
StopsOnErrorOnly(t) == t.type = TOK_ERROR

(* Mutant: the loop forgets its break on the Error token.              *)
StopsOnEndOnly(t) == t.type = TOK_EOF

Stops(t) == t.type = TOK_ERROR \/ t.type = TOK_EOF

(* main, lines 410-421.  A scan prints at most Len(input) + 1 tokens;   *)
(* the guard on Len(out) keeps the printed sequence finite.            *)
MainStop ==
  /\ pc = "print"
  /\ Len(out) <= Len(input)
  /\ Stops(tok)
  /\ out' = Append(out, Printed)
  /\ pc' = "done"
  /\ UNCHANGED <<input, fp, g_line, g_col, tok, consumed, callFrom, tokStart>>

MainContinue ==
  /\ pc = "print"
  /\ Len(out) <= Len(input)
  /\ ~Stops(tok)
  /\ out' = Append(out, Printed)
  /\ pc' = "skip"
  /\ callFrom' = Offset(Cur)
  /\ consumed' = 0
  /\ UNCHANGED <<input, fp, g_line, g_col, tok, tokStart>>

Next ==
  \/ SkipWhitespaceAndComments
  \/ NextTokenEOF
  \/ NextTokenDispatch
  \/ ReadIdentifierOrKeyword
  \/ ReadNumber
  \/ ReadString
  \/ ReadCharLiteral
  \/ ReadOperatorOrSeparator
  \/ MainStop
  \/ MainContinue

Spec == Init /\ [][Next]_vars

(* ------------------------------------------------------------------ *)
(* Positions in the input, counted on the input itself                 *)
(* ------------------------------------------------------------------ *)
Kinds(i) == out[i].tok.type

IsToken(i) == Kinds(i) # TOK_EOF

NewlinesBefore(k) == Cardinality({j \in 1..k : input[j] = "\n"})

LastNewline(k) ==
  IF \E j \in 1..k : input[j] = "\n"
  THEN CHOOSE j \in 1..k : input[j] = "\n" /\ \A m \in (j + 1)..k : input[m] # "\n"
  ELSE 0

(* C1: every token other than EndOfInput carries the line of its first *)
(* character: 1 plus the number of newlines before that character.     *)
C1_LineOfFirstChar ==
  \A i \in 1..Len(out) :
    IsToken(i) => out[i].tok.line = 1 + NewlinesBefore(out[i].start)

(* C2: every token other than EndOfInput carries the column of its     *)
(* first character: its 1-based offset in its line, which is >= 1.     *)
C2_ColumnOfFirstChar ==
  \A i \in 1..Len(out) :
    IsToken(i) =>
      /\ out[i].tok.col = out[i].start + 1 - LastNewline(out[i].start)
      /\ out[i].tok.col >= 1

(* The characters given back are the ones just before the read position. *)
PushbackExact ==
  /\ fp.pos >= Len(fp.pb)
  /\ fp.pos <= Len(input)
  /\ fp.pb = SubSeq(input, fp.pos - Len(fp.pb) + 1, fp.pos)

(* Call i took input[from+1..upto]: skipped layout up to start, then its lexeme. *)
Tiles(i) ==
  /\ out[i].from = (IF i = 1 THEN 0 ELSE out[i - 1].upto)
  /\ out[i].from <= out[i].start
  /\ out[i].start <= out[i].upto
  /\ out[i].n = (out[i].start - out[i].from) + (out[i].upto - out[i].start)

RECURSIVE SumConsumed(_)
SumConsumed(k) == IF k = 0 THEN 0 ELSE out[k].n + SumConsumed(k - 1)

ScannedToEnd == pc = "done" /\ Kinds(Len(out)) = TOK_EOF

(* C3: a scan that reaches EndOfInput without an Error token consumes  *)
(* every input character exactly once: the calls take adjacent pieces  *)
(* of the input, their consumed counts add up to the input length, and *)
(* what is pushed back is exactly what was read last.                  *)
C3_NothingLostOrDuplicated ==
  /\ PushbackExact
  /\ \A i \in 1..Len(out) : Tiles(i)
  /\ ScannedToEnd =>
       /\ SumConsumed(Len(out)) = Len(input)
       /\ out[Len(out)].upto = Len(input)

C3_Witness ==
  /\ ScannedToEnd
  /\ Len(out) >= 3
  /\ \E i \in 1..Len(out) : out[i].start > out[i].from /\ out[i].upto > out[i].start
  /\ \E i \in 1..Len(out) : /\ Kinds(i) = TOK_OPERATOR
                            /\ input[out[i].start + 1] = "/"
                            /\ out[i].start + 2 <= Len(input)

EveryTokenConsumes ==
  \A i \in 1..Len(out) :
    IsToken(i) => out[i].n >= 1 /\ out[i].upto > out[i].start

Rank ==
  CASE pc = "skip" -> 0
    [] pc = "peek" -> 1
    [] pc = "print" -> 3
    [] pc = "done" -> 4
    [] OTHER -> 2

(* The steps taken so far: complete calls, and the place in this one.  *)
Progress == 4 * Len(out) + Rank

(* ENABLED Next, written out from the guards of the actions: every     *)
(* action but the two of main is enabled by its value of pc alone.     *)
CanStep ==
  \/ pc \in {"skip", "peek", "read_identifier_or_keyword", "read_number",
             "read_string", "read_char_literal", "read_operator_or_separator"}
  \/ pc = "print" /\ Len(out) <= Len(input)

(* C4: every call that returns a token other than EndOfInput consumes  *)
(* at least one character (in its lexeme), so at most Len(input) + 1   *)
(* tokens are requested; every step moves the run forward, a run that  *)
(* has not ended can take a step, and the driver ends after an         *)
(* EndOfInput or an Error token.                                       *)
C4_DriverTerminates ==
  /\ [](EveryTokenConsumes)
  /\ [](Len(out) <= Len(input) + 1)
  /\ [](pc = "done" \/ CanStep)
  /\ [][Progress' > Progress]_vars
  /\ [](pc = "done" => Kinds(Len(out)) \in {TOK_EOF, TOK_ERROR})

C4_Witness ==
  /\ pc = "done"
  /\ Len(out) >= 4
  /\ \E i \in 1..Len(out) : out[i].n = 1

(* ------------------------------------------------------------------ *)
(* The lexemes, read off the input                                     *)
(* ------------------------------------------------------------------ *)
CharAt(k) == IF k >= 1 /\ k <= Len(input) THEN input[k] ELSE EOF

Lookahead(i) == CharAt(out[i].start + 1)

Lexeme(i) == SubSeq(input, out[i].start + 1, out[i].upto)

IdentChar(c) == isalpha(c) \/ isdigit(c) \/ c = "_"

(* The end of the longest run of identifier characters after offset k. *)
IdentRunEnd(k) ==
  CHOOSE j \in k..Len(input) :
    /\ \A m \in (k + 1)..j : IdentChar(input[m])
    /\ ~IdentChar(CharAt(j + 1))

DigitRunEnd(k) ==
  CHOOSE j \in k..Len(input) :
    /\ \A m \in (k + 1)..j : isdigit(input[m])
    /\ ~isdigit(CharAt(j + 1))

ReservedWords ==
  { <<"i","f">>, <<"e","l","s","e">>, <<"w","h","i","l","e">>, <<"f","o","r">>,
    <<"r","e","t","u","r","n">>, <<"i","n","t">>, <<"f","l","o","a","t">>,
    <<"c","h","a","r">>, <<"v","o","i","d">>, <<"b","r","e","a","k">>,
    <<"c","o","n","t","i","n","u","e">>, <<"s","t","r","u","c","t">>,
    <<"c","o","n","s","t">> }

StartsIdentifier(i) == IsToken(i) /\ (isalpha(Lookahead(i)) \/ Lookahead(i) = "_")

(* C5: on a letter or underscore the call takes the longest run of     *)
(* letters, digits and underscores and gives one token for it, Keyword *)
(* exactly when the run is a reserved word (then with the run as its   *)
(* text), Identifier otherwise; no identifier character follows it.    *)
C5_KeywordOrIdentifier ==
  \A i \in 1..Len(out) :
    StartsIdentifier(i) =>
      /\ out[i].upto = IdentRunEnd(out[i].start)
      /\ ~IdentChar(CharAt(out[i].upto + 1))
      /\ Kinds(i) \in {TOK_KEYWORD, TOK_IDENTIFIER}
      /\ Kinds(i) = TOK_KEYWORD <=> Lexeme(i) \in ReservedWords
      /\ Kinds(i) = TOK_KEYWORD => out[i].tok.lexeme = Lexeme(i)
      /\ Lexeme(i) = <<"w","h","i","l","e","1">> =>
           out[i].tok = [out[i].tok EXCEPT !.type = TOK_IDENTIFIER,
                                           !.lexeme = <<"w","h","i","l","e","1">>]

C5_Witness ==
  /\ pc = "done"
  /\ \E i \in 1..Len(out) : Kinds(i) = TOK_KEYWORD /\ Lexeme(i) = <<"w","h","i","l","e">>
  /\ \E i \in 1..Len(out) : Kinds(i) = TOK_IDENTIFIER /\ out[i].upto < Len(input)

(* C6: a run of more than 64 identifier characters gives one           *)
(* Identifier whose text is the first 64 of them, the call consuming   *)
(* the whole run; a run of at most 64 is returned whole.               *)
C6_IdentifierTruncation ==
  \A i \in 1..Len(out) :
    StartsIdentifier(i) =>
      /\ out[i].upto = IdentRunEnd(out[i].start)
      /\ i < Len(out) => ~StartsIdentifier(i + 1) \/ out[i + 1].start > out[i].upto
      /\ IF Len(Lexeme(i)) > 64
         THEN /\ Kinds(i) = TOK_IDENTIFIER
              /\ out[i].tok.lexeme = SubSeq(Lexeme(i), 1, 64)
         ELSE out[i].tok.lexeme = Lexeme(i)

C6_Witness ==
  /\ pc = "done"
  /\ Len(out) = 3
  /\ Kinds(1) = TOK_IDENTIFIER
  /\ Len(Lexeme(1)) > 64
  /\ Len(out[1].tok.lexeme) = 64
  /\ Kinds(2) = TOK_IDENTIFIER

StartsNumber(i) == IsToken(i) /\ isdigit(Lookahead(i))

HasPoint(k) == CharAt(DigitRunEnd(k) + 1) = "."

(* The end of the literal after offset k: digits, then a point and digits. *)
NumberEnd(k) ==
  IF HasPoint(k) THEN DigitRunEnd(DigitRunEnd(k) + 1) ELSE DigitRunEnd(k)

NumberShape(i) ==
  /\ out[i].upto = NumberEnd(out[i].start)
  /\ Kinds(i) = (IF HasPoint(out[i].start) THEN TOK_FLOAT ELSE TOK_INT)

(* After the number scanner the next character to read is the first   *)
(* one that is not part of the literal.                                *)
NumberLeavesNext ==
  (pc = "print" /\ tok.type \in {TOK_INT, TOK_FLOAT}) =>
    /\ Offset(Cur) = NumberEnd(tokStart)
    /\ fgetc(Cur) = CharAt(NumberEnd(tokStart) + 1)

NumberExamples ==
  /\ (input = <<"1","2",".">> /\ Len(out) >= 1) =>
       out[1].tok.type = TOK_FLOAT /\ out[1].tok.lexeme = <<"1","2",".">>
  /\ (input = <<"1","2">> /\ Len(out) >= 1) =>
       out[1].tok.type = TOK_INT /\ out[1].tok.lexeme = <<"1","2">>

(* C7 as stated: on a digit the call takes the longest digit run, and  *)
(* a point with the digits after it when the run is followed by one;   *)
(* FloatLiteral exactly then, else IntegerLiteral; the text is exactly *)
(* the consumed characters; the next character is left to be read.     *)
C7_NumberTextExact ==
  /\ \A i \in 1..Len(out) :
       StartsNumber(i) => NumberShape(i) /\ out[i].tok.lexeme = Lexeme(i)
  /\ NumberLeavesNext
  /\ NumberExamples

(* C7 amended: the same, the text being the consumed characters cut    *)
(* to their first MAX_LEXEME_LEN - 1 = 255.                            *)
C7_NumberTextBounded ==
  /\ \A i \in 1..Len(out) :
       StartsNumber(i) =>
         /\ NumberShape(i)
         /\ out[i].tok.lexeme = Take(Lexeme(i), 255)
  /\ NumberLeavesNext
  /\ NumberExamples

C7_Witness ==
  /\ pc = "done"
  /\ Kinds(1) = TOK_FLOAT
  /\ Len(Lexeme(1)) > 255
  /\ Len(out[1].tok.lexeme) = 255

Separators == {"(", ")", "{", "}", "[", "]", ";", ","}

TwoCharOperators ==
  { <<"=","=">>, <<"!","=">>, <<"<","=">>, <<">","=">>, <<"&","&">>,
    <<"|","|">>, <<"+","+">>, <<"-","-">>, <<"+","=">>, <<"-","=">>,
    <<"*","=">>, <<"/","=">>, <<"%","=">>, <<"-",">">> }

(* The call is in the operator scanner: its first character starts no  *)
(* identifier, number, string or character literal.                    *)
InOperatorScanner ==
  /\ pc = "print"
  /\ tok.type # TOK_EOF
  /\ ~IdentChar(CharAt(tokStart + 1))
  /\ CharAt(tokStart + 1) \notin {"\"", "'"}

OperatorExamples ==
  /\ (input = <<"<","=","x">> /\ pc = "done") =>
       /\ Len(out) = 3
       /\ out[1].tok.type = TOK_OPERATOR /\ out[1].tok.lexeme = <<"<","=">>
       /\ out[2].tok.type = TOK_IDENTIFIER /\ out[2].tok.lexeme = <<"x">>
  /\ (input = <<"<","x">> /\ pc = "done") =>
       /\ Len(out) = 3
       /\ out[1].tok.type = TOK_OPERATOR /\ out[1].tok.lexeme = <<"<">>
       /\ out[2].tok.type = TOK_IDENTIFIER /\ out[2].tok.lexeme = <<"x">>

(* C8: in the operator scanner a first character that is no separator  *)
(* and makes a two-character operator with the second gives one        *)
(* Operator token of both; otherwise only the first character is       *)
(* consumed and the second is the next character read.                 *)
C8_OperatorGreedy ==
  /\ InOperatorScanner =>
       LET c1 == CharAt(tokStart + 1)
           c2 == CharAt(tokStart + 2)
       IN IF c1 \notin Separators /\ <<c1, c2>> \in TwoCharOperators
          THEN /\ tok.type = TOK_OPERATOR
               /\ tok.lexeme = <<c1, c2>>
               /\ Offset(Cur) = tokStart + 2
          ELSE /\ Offset(Cur) = tokStart + 1
               /\ consumed = (tokStart - callFrom) + 1
               /\ fgetc(Cur) = c2
               /\ Len(tok.lexeme) <= 1
  /\ \A i \in 1..(Len(out) - 1) : out[i + 1].from = out[i].upto
  /\ OperatorExamples

C8_Witness ==
  /\ InOperatorScanner
  /\ tok.type = TOK_OPERATOR
  /\ Len(tok.lexeme) = 1
  /\ CharAt(tokStart + 1) = "<"
  /\ IdentChar(fgetc(Cur))
  /\ Len(fp.pb) = 1
  /\ Len(out) >= 1

(* ------------------------------------------------------------------ *)
(* String literals, read off the input                                 *)
(* ------------------------------------------------------------------ *)
(* The backslashes directly before index j, back to the quote at q.    *)
BackslashesBefore(q, j) ==
  j - 1 - (CHOOSE p \in q..(j - 1) :
             /\ input[p] # "\\" \/ p = q
             /\ \A m \in (p + 1)..(j - 1) : input[m] = "\\")

Unescaped(q, j) == BackslashesBefore(q, j) % 2 = 0

(* The unescaped quotes and newlines after the opening quote at q.     *)
StringStops(q) ==
  {j \in (q + 1)..Len(input) : Unescaped(q, j) /\ input[j] \in {"\"", "\n"}}

(* No unescaped quote closes the string opened at q before an          *)
(* unescaped newline or the end of the input.                          *)
Unclosed(q) ==
  \/ StringStops(q) = {}
  \/ \E j \in StringStops(q) :
       input[j] = "\n" /\ \A m \in StringStops(q) : j <= m

(* C9: a string literal that meets an unescaped newline or the end of  *)
(* the input (also right after a backslash) before its closing quote   *)
(* gives an Error token with the message "Unterminated string literal" *)
(* and the line and column the scanner held at the opening quote; the  *)
(* input "abc without a closing quote gives that one token only.       *)
C9_UnterminatedString ==
  /\ [][(pc = "read_string" /\ Unclosed(tokStart + 1)) =>
          /\ fgetc(Cur) = "\""
          /\ pc' = "print"
          /\ tok'.type = TOK_ERROR
          /\ tok'.lexeme = <<"Unterminated string literal">>
          /\ tok'.line = g_line
          /\ tok'.col = g_col + 1]_vars
  /\ []((input = <<"\"","a","b","c">> /\ pc = "done") =>
          Len(out) = 1 /\ Kinds(1) = TOK_ERROR)

C9_Witness ==
  /\ pc = "done"
  /\ Len(out) = 2
  /\ Kinds(2) = TOK_ERROR
  /\ out[2].tok.lexeme = <<"Unterminated string literal">>
  /\ out[2].tok.line = 1
  /\ out[2].tok.col = 2
  /\ input[out[2].upto] = "\n"
  /\ input[out[2].upto - 1] # "\\"

(* C10: the driver stops at the first Error token, so an Error token   *)
(* is printed at most once and last; a finished run ends with an Error *)
(* or an EndOfInput token; an Unknown token does not stop the loop.    *)
C10_DriverStopsOnError ==
  /\ [](\A i \in 1..Len(out) :
          Kinds(i) \in {TOK_ERROR, TOK_EOF} => i = Len(out) /\ pc = "done")
  /\ [](pc = "done" => Len(out) >= 1 /\ Kinds(Len(out)) \in {TOK_ERROR, TOK_EOF})
  /\ [][(pc = "print" /\ tok.type = TOK_ERROR) => pc' = "done"]_vars
  /\ [][(pc = "print" /\ tok.type = TOK_UNKNOWN) => pc' = "skip"]_vars

C10_Witness ==
  /\ pc = "done"
  /\ Len(out) = 3
  /\ Kinds(1) = TOK_UNKNOWN
  /\ Kinds(3) = TOK_ERROR

(* C12: at every point of a scan at most one character is pending in   *)
(* the pushback.                                                       *)
C12_SinglePushback == Len(fp.pb) <= 1

(* C20: the line counter is at least 1 and never decreases, and the    *)
(* column counter is never negative.                                   *)
C20_CountersInRange ==
  /\ [](g_line >= 1 /\ g_col >= 0)
  /\ [][g_line' >= g_line]_vars

(* The one-character operators, as the documentation lists them.       *)
SingleCharOperators ==
  {"+", "-", "*", "/", "%", "<", ">", "=", "!", "&", "|", "^", "~", "?", ":", "."}

(* C18: in the operator scanner a separator gives a one-character      *)
(* Separator token; a character that is no separator and starts no     *)
(* two-character operator gives a one-character Operator token if it   *)
(* is one of the one-character operators and a one-character Unknown   *)
(* token otherwise; the next call continues from the following         *)
(* character.                                                          *)
C18_SingleCharacterTokens ==
  InOperatorScanner =>
    LET c1 == CharAt(tokStart + 1)
        c2 == CharAt(tokStart + 2)
    IN (c1 \in Separators \/ <<c1, c2>> \notin TwoCharOperators) =>
         /\ tok.type = IF c1 \in Separators THEN TOK_SEPARATOR
                       ELSE IF c1 \in SingleCharOperators THEN TOK_OPERATOR
                       ELSE TOK_UNKNOWN
         /\ tok.type # TOK_ERROR
         /\ Len(tok.lexeme) = 1
         /\ Offset(Cur) = tokStart + 1
         /\ fgetc(Cur) = c2

(* ------------------------------------------------------------------ *)
(* Layout (whitespace and comments), read off the input                *)
(* ------------------------------------------------------------------ *)
(* The first newline after offset p, or 0 when there is none.          *)
NewlineAfter(p) ==
  IF \E j \in (p + 1)..Len(input) : input[j] = "\n"
  THEN CHOOSE j \in (p + 1)..Len(input) :
         input[j] = "\n" /\ \A m \in (p + 1)..(j - 1) : input[m] # "\n"
  ELSE 0

(* The ends of a star-slash pair that lies wholly after offset p.      *)
Closers(p) ==
  {j \in (p + 2)..Len(input) : input[j - 1] = "*" /\ input[j] = "/"}

FirstCloser(p) == CHOOSE j \in Closers(p) : \A m \in Closers(p) : j <= m

(* The offset where the layout that starts at offset k ends.           *)
RECURSIVE LayoutEnd(_)
LayoutEnd(k) ==
  LET c == CharAt(k + 1)
      d == CharAt(k + 2)
  IN IF isspace(c) THEN LayoutEnd(k + 1)
     ELSE IF c = "/" /\ d = "/"
     THEN IF NewlineAfter(k + 2) = 0 THEN Len(input)
          ELSE LayoutEnd(NewlineAfter(k + 2) - 1)
     ELSE IF c = "/" /\ d = "*"
     THEN IF Closers(k + 2) = {} THEN Len(input)
          ELSE LayoutEnd(FirstCloser(k + 2))
     ELSE k

OpensComment(c, d) == c = "/" /\ d \in {"/", "*"}

(* C13: when skip_whitespace_and_comments has returned, the next       *)
(* character read is the end of the input or a character that is no    *)
(* whitespace and does not open a comment with the one after it; every *)
(* call skips exactly the layout before its token, so no token starts  *)
(* on whitespace or inside a comment.                                  *)
C13_SkipStopsAtToken ==
  /\ pc = "peek" =>
       LET r == read_char(Cur)
           c2 == fgetc(r.s)
       IN /\ r.c = EOF \/ (~isspace(r.c) /\ ~OpensComment(r.c, c2))
          /\ Offset(Cur) = LayoutEnd(callFrom)
  /\ \A i \in 1..Len(out) :
       /\ out[i].start = LayoutEnd(out[i].from)
       /\ IsToken(i) =>
            /\ ~isspace(Lookahead(i))
            /\ ~OpensComment(Lookahead(i), CharAt(out[i].start + 2))

C13_Witness ==
  /\ pc = "peek"
  /\ fgetc(Cur) = "/"
  /\ Len(fp.pb) = 2
  /\ \E m \in (callFrom + 1)..Offset(Cur) : isspace(input[m])
  /\ \E m \in (callFrom + 2)..Offset(Cur) : OpensComment(input[m - 1], input[m])
  /\ Len(out) >= 1

(* ------------------------------------------------------------------ *)
(* The turns of the skipper's loop in a state where it is called       *)
(* ------------------------------------------------------------------ *)
(* The loop after j turns; another turn follows when it has not        *)
(* returned.                                                           *)
Turn(j) == Iterate(Skipping, SkipTurn, [s |-> Cur, returned |-> FALSE], j)

Turns == {j \in 0..Len(input) : pc = "skip" /\ ~Turn(j).returned}

(* Lines 83-92 of the turn after turn j: the character after the       *)
(* spaces, and the one read after it.                                  *)
First(j) == SkipSpaces(read_char(Turn(j).s))

Second(j) == read_char(First(j).s)

OpensLineComment(j) == First(j).c = "/" /\ Second(j).c = "/"

OpensBlockComment(j) == First(j).c = "/" /\ Second(j).c = "*"

(* Lines 96-99 and 106-119: the last character read by the comment's   *)
(* loop and the scanner after it.                                      *)
AfterLineComment(j) == LineComment(read_char(Second(j).s))

AfterBlockComment(j) == BlockComment(read_char(Second(j).s))

(* C14: when the loop of a single-line comment has finished, the       *)
(* newline that ends the comment is still unread and is the next       *)
(* character read, or the end of the input was reached.                *)
C14_NewlineLeftUnread ==
  \A j \in Turns :
    OpensLineComment(j) =>
      LET nl == NewlineAfter(Offset(Second(j).s))
          a == AfterLineComment(j)
      IN IF nl = 0 THEN a.c = EOF /\ Offset(a.s) = Len(input)
         ELSE Offset(a.s) = nl - 1 /\ fgetc(a.s) = "\n"

(* C14, as the code has it: the loop of a single-line comment reads up *)
(* to and including the newline that ends the comment, which is        *)
(* counted once in the line counter; the next character read is the    *)
(* one after that newline, or the end of the input was reached.        *)
C14_NewlineConsumed ==
  \A j \in Turns :
    OpensLineComment(j) =>
      LET p == Offset(Second(j).s)
          nl == NewlineAfter(p)
          a == AfterLineComment(j)
      IN /\ a.s.pb = <<>>
         /\ IF nl = 0 THEN a.c = EOF /\ Offset(a.s) = Len(input)
            ELSE /\ a.c = "\n"
                 /\ Offset(a.s) = nl
                 /\ fgetc(a.s) = CharAt(nl + 1)
                 /\ a.s.line = Second(j).s.line + 1
                 /\ a.s.col = 0
         /\ Offset(Turn(j + 1).s) = Offset(a.s)

C14_Witness ==
  \E j \in Turns :
    /\ Len(out) >= 1
    /\ OpensLineComment(j)
    /\ NewlineAfter(Offset(Second(j).s)) > Offset(Second(j).s) + 1
    /\ CharAt(NewlineAfter(Offset(Second(j).s)) + 1) \notin {EOF, "\n"}

(* C15: a block comment ends at the first '*' '/' pair that lies       *)
(* wholly after its opener, so the three characters slash, star, slash *)
(* do not close it; when the input ends first, the skipper stops at    *)
(* the end of the input, the token of that call is EndOfInput, and an  *)
(* Error token only ever starts at a quote.                            *)
C15_BlockCommentClose ==
  /\ [](\A j \in Turns :
          OpensBlockComment(j) =>
            LET p == Offset(Second(j).s)
                a == AfterBlockComment(j)
            IN /\ a.s.pb = <<>>
               /\ IF Closers(p) # {}
                  THEN a.c = "/" /\ Offset(a.s) = FirstCloser(p)
                  ELSE /\ a.c = EOF
                       /\ Offset(a.s) = Len(input)
                       /\ fgetc(skip_whitespace_and_comments(Cur)) = EOF)
  /\ [][(pc = "peek" /\ fgetc(Cur) = EOF) =>
          pc' = "print" /\ tok'.type = TOK_EOF]_vars
  /\ [](\A i \in 1..Len(out) :
          Kinds(i) = TOK_ERROR => Lookahead(i) \in {"\"", "'"})
  /\ [](\A i \in 1..Len(out) :
          (Closers(out[i].from + 2) = {}
             /\ CharAt(out[i].from + 1) = "/" /\ CharAt(out[i].from + 2) = "*")
          => Kinds(i) = TOK_EOF /\ out[i].upto = Len(input))

C15_Witness ==
  /\ pc = "done"
  /\ Len(out) = 2
  /\ Kinds(2) = TOK_EOF
  /\ \E m \in out[2].from..(Len(input) - 4) :
       /\ \A n \in (out[2].from + 1)..m : isspace(input[n])
       /\ SubSeq(input, m + 1, m + 3) = <<"/", "*", "/">>
       /\ Closers(m + 2) = {}

(* C16: a string literal that is scanned with success ends at the      *)
(* first quote that is not the second character of an escape; the      *)
(* token's text is the characters between the two quotes as they are   *)
(* in the input, cut to the lexeme length bound, and the closing quote *)
(* is consumed.                                                        *)
C16_StringTextRaw ==
  (pc = "print" /\ tok.type = TOK_STRING) =>
    LET q == tokStart + 1
        close == Offset(Cur)
    IN /\ input[q] = "\""
       /\ close \in StringStops(q)
       /\ \A m \in StringStops(q) : close <= m
       /\ input[close] = "\""
       /\ fp.pb = <<>>
       /\ tok.lexeme = Take(SubSeq(input, q + 1, close - 1), MAX_LEXEME_LEN - 1)

(* ------------------------------------------------------------------ *)
(* Character literals, read off the input                              *)
(* ------------------------------------------------------------------ *)
(* The end of the logical character after the quote at q: one          *)
(* character, or a backslash and one character; 0 when a newline or    *)
(* the end of the input stands where a character is expected.          *)
LogicalCharEnd(q) ==
  IF CharAt(q + 1) \in {EOF, "\n"} THEN 0
  ELSE IF CharAt(q + 1) # "\\" THEN q + 1
  ELSE IF CharAt(q + 2) \in {EOF, "\n"} THEN 0
  ELSE q + 2

WellFormedChar(q) ==
  LogicalCharEnd(q) # 0 /\ CharAt(LogicalCharEnd(q) + 1) = "'"

(* C17: a token that starts at a single quote is CharLiteral exactly   *)
(* when one logical character and a closing quote follow; otherwise it *)
(* is an Error token whose line and column are those of the opening    *)
(* quote in the input.                                                 *)
C17_CharLiteralOrError ==
  \A i \in 1..Len(out) :
    (IsToken(i) /\ Lookahead(i) = "'") =>
      IF WellFormedChar(out[i].start + 1)
      THEN Kinds(i) = TOK_CHAR
      ELSE /\ Kinds(i) = TOK_ERROR
           /\ out[i].tok.line = 1 + NewlinesBefore(out[i].start)
           /\ out[i].tok.col = out[i].start + 1 - LastNewline(out[i].start)

(* ------------------------------------------------------------------ *)
(* The capture buffers                                                 *)
(* ------------------------------------------------------------------ *)
(* The buffer (its length is the capture index len) when the loops of  *)
(* the sub-scanner about to run have ended.                            *)
CaptureBuffer ==
  CASE pc = "read_identifier_or_keyword" -> IdentRun(read_char(Cur), <<>>).buf
    [] pc = "read_number" -> Fraction(DigitRun(read_char(Cur), <<>>)).buf
    [] pc = "read_string" -> StringRun(read_char(read_char(Cur).s)).buf
    [] OTHER -> <<>>

(* The token of call i ends where its lexeme ends in the input,        *)
(* however long the lexeme is.                                         *)
TakenWhole(i) ==
  /\ StartsIdentifier(i) =>
       out[i].upto = IdentRunEnd(out[i].start) /\ Kinds(i) \in {TOK_IDENTIFIER, TOK_KEYWORD}
  /\ StartsNumber(i) => NumberShape(i)
  /\ (Lookahead(i) = "\"" /\ ~Unclosed(out[i].start + 1)) =>
       /\ Kinds(i) = TOK_STRING
       /\ out[i].upto \in StringStops(out[i].start + 1)
       /\ \A m \in StringStops(out[i].start + 1) : out[i].upto <= m

(* C19: the capture index of every sub-scanner is at most 255          *)
(* (MAX_LEXEME_LEN - 1), so the writes to the buffer and of its        *)
(* terminating NUL are in bounds; every token's text has at most 255   *)
(* characters (an identifier's at most MAX_ID_LEN); a lexeme longer    *)
(* than the bound is consumed whole and gives its token, not an error  *)
(* and not a shorter token.                                            *)
C19_CaptureInBounds ==
  /\ Len(CaptureBuffer) <= MAX_LEXEME_LEN - 1
  /\ Len(tok.lexeme) <= MAX_LEXEME_LEN - 1
  /\ tok.type = TOK_IDENTIFIER => Len(tok.lexeme) <= MAX_ID_LEN
  /\ tok.type \in {TOK_CHAR, TOK_OPERATOR, TOK_SEPARATOR, TOK_UNKNOWN} =>
       Len(tok.lexeme) <= 2
  /\ \A i \in 1..Len(out) : TakenWhole(i)

C19_Witness ==
  /\ pc = "done"
  /\ Len(out) = 2
  /\ Kinds(1) = TOK_STRING
  /\ Len(out[1].tok.lexeme) = MAX_LEXEME_LEN - 1
  /\ out[1].upto - out[1].start > MAX_LEXEME_LEN + 2
  /\ \E m \in 1..Len(input) : input[m] = "\\"
  /\ Kinds(2) = TOK_EOF

====
